---- MODULE Spec2Model ----
(***************************************************************************)
(* The real-time update hub of app/services/sse_service.py: SSEClient      *)
(* channels, the SSEService registry (_clients), the broadcaster           *)
(* (_broadcast_to_clients and the notify_* publishers), the periodic       *)
(* cleanup task and the event_generator of every subscribe_to_* stream.    *)
(*                                                                         *)
(* asyncio runs all of it on one event loop.  A coroutine gives up the     *)
(* loop only where it really suspends: inside get_event (queue.get under   *)
(* wait_for), at the generator's yield and in asyncio.sleep.  Queue.put on *)
(* an unbounded queue, _add_client, _remove_client and                     *)
(* _broadcast_to_clients never suspend, so each is one atomic action.      *)
(***************************************************************************)
EXTENDS Integers, Sequences, FiniteSets, TLC

VARIABLES
    _clients,         \* SSEService._clients: client type -> (key -> channel)
    clients,          \* every SSEClient object created so far, by creation order
    _client_counter,  \* SSEService._client_counter
    now,              \* the wall clock that datetime.now() reads, in seconds
    generators,       \* the event_generator of every subscription
    _cleanup_task     \* SSEService._cleanup_task: where the cleanup loop stands

vars == <<_clients, clients, _client_counter, now, generators, _cleanup_task>>

----------------------------------------------------------------------------
(* Bounds of the model *)

MaxClients == 2
MaxQueue == 2

\* Clock readings: more than max_lifetime apart, and more than a day apart
Instants == {0, 400, 86500}

----------------------------------------------------------------------------
(* Inputs *)

None == "None"

ClientTypes == {"guest", "session", "global"}

GuestIds == {1, 2}

SessionIds == {"s1", "s2"}

\* the sessions that open a stream
StreamingSessionIds == {"s1"}

\* str(guest_id)
str(n) == CASE n = 1 -> "1" [] n = 2 -> "2"

\* Python values, tagged by type
PyInt(n) == <<"int", n>>
PyStr(s) == <<"str", s>>
PyDatetime(t) == <<"datetime", t>>
PyList(xs) == <<"list", xs>>
PyDict(items) == <<"dict", items>>

\* The response models: a string field, the integer id and the required
\* created_at: datetime of each (the fields left out encode like these).
GuestResponse(id) ==
    [id |-> id,
     fields |-> << <<"first_name", PyStr("A")>>, <<"id", PyInt(id)>>,
                   <<"created_at", PyDatetime(0)>> >>]

RoomResponse(id) ==
    [id |-> id,
     fields |-> << <<"room_number", PyStr("101")>>, <<"id", PyInt(id)>>,
                   <<"created_at", PyDatetime(0)>> >>]

ReservationResponse(id, guest_id) ==
    [id |-> id,
     fields |-> << <<"guest_id", PyInt(guest_id)>>,
                   <<"check_in_date", PyDatetime(0)>>, <<"id", PyInt(id)>>,
                   <<"created_at", PyDatetime(0)>> >>]

Guests == {GuestResponse(id) : id \in GuestIds}

\* the room lists notify_rooms_updated is given
RoomLists == {<<>>, <<RoomResponse(1)>>}

\* BaseModel.model_dump(): field values are kept as Python objects
model_dump(model) == PyDict(model.fields)

\* A payload of plain JSON types, and the room list payload of no rooms
PlainPayload == PyDict(<< <<"id", PyInt(42)>>, <<"name", PyStr("A")>> >>)
RoomsPayload == PyDict(<< <<"rooms", PyList(<<>>)>> >>)

\* The events the publish action draws from: <<event_type, data>>
Events ==
    { <<"guest_updated", PlainPayload>>,
      <<"rooms_updated", RoomsPayload>> }

----------------------------------------------------------------------------
(* json.dumps and the SSE frame *)

\* json.dumps raises TypeError on a value its encoder has no rule for
RECURSIVE JSONSerializable(_)
JSONSerializable(v) ==
    CASE v[1] \in {"int", "str"} -> TRUE
      [] v[1] = "datetime" -> FALSE
      [] v[1] = "list" -> \A i \in 1..Len(v[2]) : JSONSerializable(v[2][i])
      [] v[1] = "dict" -> \A i \in 1..Len(v[2]) : JSONSerializable(v[2][i][2])

\* the JSON document json.dumps writes for a serializable value
RECURSIVE json_dumps(_)
json_dumps(v) ==
    CASE v[1] = "int" -> <<"number", v[2]>>
      [] v[1] = "str" -> <<"string", v[2]>>
      [] v[1] = "list" -> <<"array", [i \in 1..Len(v[2]) |-> json_dumps(v[2][i])]>>
      [] v[1] = "dict" ->
           <<"object", [i \in 1..Len(v[2]) |->
                           <<v[2][i][1], json_dumps(v[2][i][2])>>]>>

\* f"event: {event_type}\ndata: {json.dumps(data)}\n\n"
EventFrame(event_type, data) == [event |-> event_type, data |-> json_dumps(data)]

\* datetime.isoformat()
isoformat(t) == <<"iso8601", t>>

\* f"data: {json.dumps({'type': 'heartbeat', 'timestamp': ...})}\n\n"
HeartbeatFrame(t) ==
    [data |-> json_dumps(PyDict(<< <<"type", PyStr("heartbeat")>>,
                                   <<"timestamp", PyStr(isoformat(t))>> >>))]

----------------------------------------------------------------------------
(* SSEClient *)

SSEClient(client_id, event_type, target_id, t) ==
    [client_id |-> client_id, event_type |-> event_type, target_id |-> target_id,
     queue |-> <<>>, is_active |-> TRUE, created_at |-> t]

\* a send_event that does not look at is_active
send_event_IgnoresInactive(client, event_type, data) ==
    IF JSONSerializable(data)
    THEN [client |-> [client EXCEPT !.queue = Append(@, EventFrame(event_type, data))],
          ok |-> TRUE]
    ELSE [client |-> [client EXCEPT !.is_active = FALSE], ok |-> FALSE]

\* a send_event that puts the frame ahead of those waiting
send_event_AtHead(client, event_type, data) ==
    IF ~client.is_active
    THEN [client |-> client, ok |-> FALSE]
    ELSE IF JSONSerializable(data)
         THEN [client |-> [client EXCEPT !.queue = <<EventFrame(event_type, data)>> \o @],
               ok |-> TRUE]
         ELSE [client |-> [client EXCEPT !.is_active = FALSE], ok |-> FALSE]

\* send_event: the client afterwards and the value returned
send_event(client, event_type, data) ==
    IF ~client.is_active
    THEN [client |-> client, ok |-> FALSE]
    ELSE IF JSONSerializable(data)
         THEN [client |-> [client EXCEPT !.queue = Append(@, EventFrame(event_type, data))],
               ok |-> TRUE]
         ELSE [client |-> [client EXCEPT !.is_active = FALSE], ok |-> FALSE]

\* a get_event whose timeout gives the channel up
get_event_TimeoutDeactivates(client, t) ==
    IF client.queue # <<>>
    THEN [frame |-> Head(client.queue), client |-> [client EXCEPT !.queue = Tail(@)]]
    ELSE [frame |-> HeartbeatFrame(t), client |-> [client EXCEPT !.is_active = FALSE]]

\* get_event: the frame returned (the oldest one queued, or a heartbeat when
\* the wait times out on an empty queue) and the client afterwards
get_event(client, t) ==
    IF client.queue # <<>>
    THEN [frame |-> Head(client.queue), client |-> [client EXCEPT !.queue = Tail(@)]]
    ELSE [frame |-> HeartbeatFrame(t), client |-> client]

\* a close that leaves the buffered frames in the queue
close_KeepsQueue(client) == [client EXCEPT !.is_active = FALSE]

close(client) == [client EXCEPT !.is_active = FALSE, !.queue = <<>>]

----------------------------------------------------------------------------
(* SSEService: the registry *)

\* dict.pop(key)
Pop(m, k) == [j \in DOMAIN m \ {k} |-> m[j]]

\* dict[key] = value
Put(m, k, v) == (k :> v) @@ m

\* an identifier made of the clock reading alone
_generate_client_id_FromClock(counter, t) == <<0, t>>

\* f"sse_client_{counter}_{timestamp}"
_generate_client_id(counter, t) == <<counter, t>>

\* an _add_client that keeps the channel already registered at the key
_add_client_KeepsFirst(reg, cl, counter, client_type, target_id, t) ==
    LET client_id == _generate_client_id(counter + 1, t)
        ref == Len(cl) + 1
        key == IF target_id # None THEN target_id ELSE client_id
    IN  [reg |-> IF key \in DOMAIN reg[client_type]
                 THEN reg
                 ELSE [reg EXCEPT ![client_type] = Put(@, key, ref)],
         cl |-> Append(cl, SSEClient(client_id, client_type, target_id, t)),
         ref |-> ref]

_add_client(reg, cl, counter, client_type, target_id, t) ==
    LET client_id == _generate_client_id(counter + 1, t)
        ref == Len(cl) + 1
        key == IF target_id # None THEN target_id ELSE client_id
    IN  [reg |-> [reg EXCEPT ![client_type] = Put(@, key, ref)],
         cl |-> Append(cl, SSEClient(client_id, client_type, target_id, t)),
         ref |-> ref]

\* a _remove_client that, finding no entry at the key, closes the channels of
\* the class that were created for it
_remove_client_ByTarget(reg, cl, client_type, target_id) ==
    IF target_id \in DOMAIN reg[client_type]
    THEN LET ref == reg[client_type][target_id]
         IN  [reg |-> [reg EXCEPT ![client_type] = Pop(@, target_id)],
              cl |-> [cl EXCEPT ![ref] = close(@)]]
    ELSE [reg |-> reg,
          cl |-> [r \in DOMAIN cl |->
                    IF /\ cl[r].event_type = client_type
                       /\ IF client_type = "global"
                          THEN cl[r].client_id = target_id
                          ELSE cl[r].target_id = target_id
                    THEN close(cl[r])
                    ELSE cl[r]]]

\* a _remove_client that closes the channel and leaves its registry entry
_remove_client_KeepsEntry(reg, cl, client_type, target_id) ==
    IF target_id \in DOMAIN reg[client_type]
    THEN [reg |-> reg,
          cl |-> [cl EXCEPT ![reg[client_type][target_id]] = close(@)]]
    ELSE [reg |-> reg, cl |-> cl]

_remove_client(reg, cl, client_type, target_id) ==
    IF target_id \in DOMAIN reg[client_type]
    THEN LET ref == reg[client_type][target_id]
         IN  [reg |-> [reg EXCEPT ![client_type] = Pop(@, target_id)],
              cl |-> [cl EXCEPT ![ref] = close(@)]]
    ELSE [reg |-> reg, cl |-> cl]

\* a lookup that ignores the target and returns the whole class
BroadcastKeys_WholeClass(reg, client_type, target_id) ==
    DOMAIN reg[client_type]

\* the keys _broadcast_to_clients sends to
BroadcastKeys(reg, client_type, target_id) ==
    IF target_id # None /\ target_id \in DOMAIN reg[client_type]
    THEN {target_id}
    ELSE DOMAIN reg[client_type]

\* a send loop that the first failed send ends
RECURSIVE SendAll_StopsAtFailure(_, _, _, _, _)
SendAll_StopsAtFailure(cl, m, keys, event_type, data) ==
    IF keys = {}
    THEN cl
    ELSE LET k == CHOOSE x \in keys : TRUE
             sent == send_event(cl[m[k]], event_type, data)
         IN  IF sent.ok
             THEN SendAll_StopsAtFailure([cl EXCEPT ![m[k]] = sent.client],
                                         m, keys \ {k}, event_type, data)
             ELSE [cl EXCEPT ![m[k]] = sent.client]

RECURSIVE SendAll(_, _, _, _, _)
SendAll(cl, m, keys, event_type, data) ==
    IF keys = {}
    THEN cl
    ELSE LET k == CHOOSE x \in keys : TRUE
         IN  SendAll([cl EXCEPT ![m[k]] = send_event(@, event_type, data).client],
                     m, keys \ {k}, event_type, data)

\* a pass that stops pruning after the first failed channel
_broadcast_to_clients_PrunesOne(reg, cl, client_type, event_type, data, target_id) ==
    LET m == reg[client_type]
        keys == BroadcastKeys(reg, client_type, target_id)
        failed == {k \in keys : ~send_event(cl[m[k]], event_type, data).ok}
        clients_to_remove == IF failed = {} THEN {} ELSE {CHOOSE k \in failed : TRUE}
    IN  [reg |-> [reg EXCEPT ![client_type] = [k \in DOMAIN m \ clients_to_remove |-> m[k]]],
         cl |-> SendAll(cl, m, keys, event_type, data)]

\* a pass that forgets the channels whose send failed
_broadcast_to_clients_NoPrune(reg, cl, client_type, event_type, data, target_id) ==
    [reg |-> reg,
     cl |-> SendAll(cl, reg[client_type],
                    BroadcastKeys(reg, client_type, target_id), event_type, data)]

_broadcast_to_clients(reg, cl, client_type, event_type, data, target_id) ==
    LET m == reg[client_type]
        keys == BroadcastKeys(reg, client_type, target_id)
        clients_to_remove == {k \in keys : ~send_event(cl[m[k]], event_type, data).ok}
    IN  [reg |-> [reg EXCEPT ![client_type] = [k \in DOMAIN m \ clients_to_remove |-> m[k]]],
         cl |-> SendAll(cl, m, keys, event_type, data)]

notify_guest_created(reg, cl, guest, session_id) ==
    LET guest_data == model_dump(guest)
        s1 == IF session_id # None
              THEN _broadcast_to_clients(reg, cl, "session", "guest_created", guest_data, session_id)
              ELSE [reg |-> reg, cl |-> cl]
        s2 == IF session_id # None /\ session_id \in DOMAIN s1.reg["session"]
              THEN LET ref == s1.reg["session"][session_id]
                   IN  [reg |-> [s1.reg EXCEPT !["session"] = Pop(@, session_id),
                                               !["guest"] = Put(@, str(guest.id), ref)],
                        cl |-> [s1.cl EXCEPT ![ref].target_id = str(guest.id)]]
              ELSE s1
    IN  _broadcast_to_clients(s2.reg, s2.cl, "guest", "guest_created", guest_data, str(guest.id))

notify_guest_updated(reg, cl, guest) ==
    _broadcast_to_clients(reg, cl, "guest", "guest_updated", model_dump(guest), str(guest.id))

\* room_data = [room.model_dump() for room in rooms]; the payload {'rooms': room_data}
rooms_data(rooms) ==
    PyDict(<< <<"rooms", PyList([i \in 1..Len(rooms) |-> model_dump(rooms[i])])>> >>)

notify_rooms_updated(reg, cl, rooms) ==
    _broadcast_to_clients(reg, cl, "global", "rooms_updated", rooms_data(rooms), None)

\* notify_reservation_created / _updated / _cancelled differ in the event type
notify_reservation(reg, cl, event_type, reservation, guest_id) ==
    _broadcast_to_clients(reg, cl, "guest", event_type, model_dump(reservation), str(guest_id))

\* timedelta.seconds: the seconds field of the normalized (days, seconds) pair
timedelta_seconds(delta) == delta % 86400

max_lifetime == 300

\* the eviction test of the cleanup pass
Expired(client, current_time) ==
    ~client.is_active \/ timedelta_seconds(current_time - client.created_at) > max_lifetime

\* one pass of the loop body of _cleanup_inactive_clients
_cleanup_inactive_clients(reg, cl, current_time) ==
    LET gone(ct) == {k \in DOMAIN reg[ct] : Expired(cl[reg[ct][k]], current_time)}
        refs == UNION {{reg[ct][k] : k \in gone(ct)} : ct \in ClientTypes}
    IN  [reg |-> [ct \in ClientTypes |-> [k \in DOMAIN reg[ct] \ gone(ct) |-> reg[ct][k]]],
         cl |-> [r \in DOMAIN cl |-> IF r \in refs THEN close(cl[r]) ELSE cl[r]]]

\* a get_client_stats whose total leaves the global class out
get_client_stats_KeyedOnly(reg) ==
    [guest_clients |-> Cardinality(DOMAIN reg["guest"]),
     session_clients |-> Cardinality(DOMAIN reg["session"]),
     global_clients |-> Cardinality(DOMAIN reg["global"]),
     total_clients |-> Cardinality(DOMAIN reg["guest"]) + Cardinality(DOMAIN reg["session"])]

get_client_stats(reg) ==
    [guest_clients |-> Cardinality(DOMAIN reg["guest"]),
     session_clients |-> Cardinality(DOMAIN reg["session"]),
     global_clients |-> Cardinality(DOMAIN reg["global"]),
     total_clients |-> Cardinality(DOMAIN reg["guest"]) + Cardinality(DOMAIN reg["session"])
                       + Cardinality(DOMAIN reg["global"])]

----------------------------------------------------------------------------
(* The state machine *)

Init ==
    /\ _clients = [guest |-> <<>>, session |-> <<>>, global |-> <<>>]
    /\ clients = <<>>
    /\ _client_counter = 0
    /\ now = 0
    /\ generators = <<>>
    /\ _cleanup_task = "sleep"

\* the event_generator closure: the arguments its finally block unregisters with
\* and its position ("ready": before the loop test, at the start or at the yield)
Generator(client_type, key) ==
    [client_type |-> client_type, key |-> key, pc |-> "ready"]

\* _add_client followed by the creation of the stream's generator
Subscribed(client_type, target_id) ==
    LET s == _add_client(_clients, clients, _client_counter, client_type, target_id, now)
        key == IF target_id # None THEN target_id ELSE s.cl[s.ref].client_id
    IN  /\ Len(clients) < MaxClients
        /\ _clients' = s.reg
        /\ clients' = s.cl
        /\ _client_counter' = _client_counter + 1
        /\ generators' = Append(generators, Generator(client_type, key))
        /\ UNCHANGED <<now, _cleanup_task>>

subscribe_to_guest_updates(guest_id) == Subscribed("guest", str(guest_id))

subscribe_to_session_updates(session_id) == Subscribed("session", session_id)

subscribe_to_room_updates == Subscribed("global", None)

\* the number of frames waiting in all queues
RECURSIVE Queued(_)
Queued(cl) == IF cl = <<>> THEN 0 ELSE Len(Head(cl).queue) + Queued(Tail(cl))

\* a publisher ran to completion and left the service in state s
Published(s) ==
    /\ UNCHANGED <<_client_counter, now, generators, _cleanup_task>>
    /\ Queued(s.cl) <= MaxQueue
    /\ _clients' = s.reg
    /\ clients' = s.cl

\* the keys a publisher may name for a client type
Targets(client_type) ==
    CASE client_type = "guest" -> {str(g) : g \in GuestIds}
      [] client_type = "session" -> SessionIds
      [] client_type = "global" -> {None}

Broadcast(client_type, ev, target_id) ==
    Published(_broadcast_to_clients(_clients, clients, client_type, ev[1], ev[2], target_id))

NotifyGuestCreated(guest, session_id) ==
    Published(notify_guest_created(_clients, clients, guest, session_id))

NotifyGuestUpdated(guest) ==
    Published(notify_guest_updated(_clients, clients, guest))

NotifyRoomsUpdated(rooms) ==
    Published(notify_rooms_updated(_clients, clients, rooms))

NotifyReservation(event_type, reservation, guest_id) ==
    Published(notify_reservation(_clients, clients, event_type, reservation, guest_id))

\* one iteration of the cleanup task: its sleep and the pass that follows
Sweep ==
    LET s == _cleanup_inactive_clients(_clients, clients, now)
    IN  /\ clients # <<>>
        /\ UNCHANGED <<_client_counter, now, generators, _cleanup_task>>
        /\ _clients' = s.reg
        /\ clients' = s.cl

\* while client.is_active: the generator enters get_event and waits
EnterGetEvent(r) ==
    /\ generators[r].pc = "ready"
    /\ clients[r].is_active
    /\ generators' = [generators EXCEPT ![r].pc = "waiting"]
    /\ UNCHANGED <<_clients, clients, _client_counter, now, _cleanup_task>>

\* the finally block of event_generator
Finally(r, pc) ==
    LET s == _remove_client(_clients, clients, generators[r].client_type, generators[r].key)
    IN  /\ _clients' = s.reg
        /\ clients' = s.cl
        /\ generators' = [generators EXCEPT ![r].pc = pc]
        /\ UNCHANGED <<_client_counter, now, _cleanup_task>>

\* the loop condition is false: the generator leaves through finally
ExitLoop(r) ==
    /\ generators[r].pc = "ready"
    /\ ~clients[r].is_active
    /\ Finally(r, "closed")

\* get_event returns the oldest frame, which is yielded
GetEvent(r) ==
    /\ generators[r].pc = "waiting"
    /\ clients[r].queue # <<>>
    /\ clients' = [clients EXCEPT ![r] = get_event(@, now).client]
    /\ generators' = [generators EXCEPT ![r].pc = "ready"]
    /\ UNCHANGED <<_clients, _client_counter, now, _cleanup_task>>

\* get_event times out (asyncio.TimeoutError): a heartbeat is yielded
GetEventTimeout(r) ==
    /\ generators[r].pc = "waiting"
    /\ clients[r].queue = <<>>
    /\ clients' = [clients EXCEPT ![r] = get_event(@, now).client]
    /\ generators' = [generators EXCEPT ![r].pc = "ready"]
    /\ UNCHANGED <<_clients, _client_counter, now, _cleanup_task>>

\* the transport cancels the stream: finally runs
Cancel(r) ==
    /\ generators[r].pc \in {"ready", "waiting"}
    /\ Finally(r, "cancelled")

TimePasses ==
    /\ \E t \in Instants : t > now /\ now' = t
    /\ UNCHANGED <<_clients, clients, _client_counter, generators, _cleanup_task>>

Next ==
    \/ \E g \in GuestIds : subscribe_to_guest_updates(g)
    \/ \E sid \in StreamingSessionIds : subscribe_to_session_updates(sid)
    \/ subscribe_to_room_updates
    \/ \E ct \in ClientTypes, ev \in Events : \E k \in Targets(ct) : Broadcast(ct, ev, k)
    \/ \E g \in Guests, sid \in StreamingSessionIds \cup {None} : NotifyGuestCreated(g, sid)
    \/ \E g \in Guests : NotifyGuestUpdated(g)
    \/ \E rooms \in RoomLists : NotifyRoomsUpdated(rooms)
    \/ \E et \in {"reservation_created", "reservation_updated", "reservation_cancelled"},
          g \in GuestIds : NotifyReservation(et, ReservationResponse(1, g), g)
    \/ Sweep
    \/ \E r \in DOMAIN generators : EnterGetEvent(r)
    \/ \E r \in DOMAIN generators : ExitLoop(r)
    \/ \E r \in DOMAIN generators : GetEvent(r)
    \/ \E r \in DOMAIN generators : GetEventTimeout(r)
    \/ \E r \in DOMAIN generators : Cancel(r)
    \/ TimePasses

Spec == Init /\ [][Next]_vars

\* datetime.now() reads the local wall clock, which is not monotonic: it is
\* set back when daylight saving time ends or the clock is corrected
ClockSetBack ==
    /\ now = 400
    /\ now' = 0
    /\ UNCHANGED <<_clients, clients, _client_counter, generators, _cleanup_task>>

NextWallClock ==
    \/ Next
    \/ ClockSetBack

\* the service under a wall clock that may also step back
SpecWallClock == Init /\ [][NextWallClock]_vars

----------------------------------------------------------------------------
(* Vocabulary of the properties *)

\* the topic classes whose channels are keyed by target_id
KeyedTypes == {"guest", "session"}

\* the channels a class map holds
Registered(client_type) ==
    {_clients[client_type][k] : k \in DOMAIN _clients[client_type]}

\* the channels created for (client_type, target_id), registered or not
ChannelsOf(client_type, target_id) ==
    {r \in DOMAIN clients : /\ clients[r].event_type = client_type
                            /\ clients[r].target_id = target_id}

\* what a subscriber reads back from the data line of a frame
RECURSIVE json_loads(_)
json_loads(j) ==
    CASE j[1] = "number" -> PyInt(j[2])
      [] j[1] = "string" -> PyStr(j[2])
      [] j[1] = "array" -> PyList([i \in 1..Len(j[2]) |-> json_loads(j[2][i])])
      [] j[1] = "object" ->
           PyDict([i \in 1..Len(j[2]) |-> <<j[2][i][1], json_loads(j[2][i][2])>>])

\* the frame is an event frame of this event type and payload
Carries(frame, event_type, data) ==
    /\ DOMAIN frame = {"event", "data"}
    /\ frame.event = event_type
    /\ json_loads(frame.data) = data

\* the count get_client_stats reports for a topic class
StatsCount(reg, client_type) ==
    CASE client_type = "guest" -> get_client_stats(reg).guest_clients
      [] client_type = "session" -> get_client_stats(reg).session_clients
      [] client_type = "global" -> get_client_stats(reg).global_clients

----------------------------------------------------------------------------
(* Publishing *)

\* C1: publishing to a guest- or session-class key at which no channel is
\* registered is a no-op: the registry is unchanged and no channel, under any
\* key, gains a frame.
C1_PublishToUnregisteredKeyIsNoOp ==
    [][\A ct \in KeyedTypes, ev \in Events : \A k \in Targets(ct) :
          (k \notin DOMAIN _clients[ct] /\ Broadcast(ct, ev, k))
             => /\ _clients' = _clients
                /\ \A r \in DOMAIN clients : clients'[r].queue = clients[r].queue]_vars

\* the one channel a publish to (client_type, target_id) is meant for
Subscriber(client_type, target_id) ==
    IF target_id # None
    THEN _clients[client_type][target_id]
    ELSE CHOOSE r \in Registered(client_type) : TRUE

\* exactly one active channel is registered at (client_type, target_id), and
\* no older frame is waiting in it
OneIdleSubscriber(client_type, target_id) ==
    /\ IF target_id # None
       THEN target_id \in DOMAIN _clients[client_type]
       ELSE Cardinality(DOMAIN _clients[client_type]) = 1
    /\ clients[Subscriber(client_type, target_id)].is_active
    /\ clients[Subscriber(client_type, target_id)].queue = <<>>

\* the frame the subscriber's next get_event returns carries the event
NextGetEventCarries(client_type, target_id, event_type, data) ==
    Carries(get_event(clients'[Subscriber(client_type, target_id)], now').frame,
            event_type, data)

\* C2: when exactly one active channel is registered at (T,K) (with nothing
\* older waiting in its queue) and an event is published to (T,K), the frame
\* that subscriber's next get_event returns carries exactly the event's type
\* and payload.
C2_NextGetEventReturnsPublishedEvent ==
    [][/\ \A ct \in ClientTypes, ev \in Events : \A k \in Targets(ct) :
            (OneIdleSubscriber(ct, k) /\ Broadcast(ct, ev, k))
               => NextGetEventCarries(ct, k, ev[1], ev[2])
       /\ \A g \in Guests :
            (OneIdleSubscriber("guest", str(g.id)) /\ NotifyGuestUpdated(g))
               => NextGetEventCarries("guest", str(g.id), "guest_updated", model_dump(g))
       /\ \A rooms \in RoomLists :
            (OneIdleSubscriber("global", None) /\ NotifyRoomsUpdated(rooms))
               => NextGetEventCarries("global", None, "rooms_updated", rooms_data(rooms))]_vars

\* C3: publishing to a registered guest- or session-class key enqueues the
\* frame to the channel registered there and changes no other channel: none
\* under another key of the class, none of another class, none unregistered.
\* Stated of the outcome of the publish in every reachable state.
C3_PublishReachesTargetOnly ==
    /\ \A ct \in KeyedTypes, ev \in Events : \A k \in DOMAIN _clients[ct] :
          LET s == _broadcast_to_clients(_clients, clients, ct, ev[1], ev[2], k)
              target == _clients[ct][k]
          IN  /\ s.cl[target].queue =
                    Append(clients[target].queue, EventFrame(ev[1], ev[2]))
              /\ \A r \in DOMAIN clients \ {target} : s.cl[r] = clients[r]
    /\ \A g \in Guests :
          str(g.id) \in DOMAIN _clients["guest"]
             => LET s == notify_guest_updated(_clients, clients, g)
                IN  \A r \in DOMAIN clients \ {_clients["guest"][str(g.id)]} :
                       s.cl[r] = clients[r]

\* two channels registered under different keys of one class; the frame
\* published to one key is queued there and the other queue is empty
C3_Witness ==
    \E ct \in KeyedTypes : \E k1, k2 \in DOMAIN _clients[ct] :
        /\ k1 # k2
        /\ Len(clients[_clients[ct][k1]].queue) = 1
        /\ clients[_clients[ct][k2]].queue = <<>>

----------------------------------------------------------------------------
(* Subscription endpoints and the registry *)

\* the channels some class map holds
RegisteredAnywhere == UNION {Registered(ct) : ct \in ClientTypes}

\* C4: when an endpoint is cancelled or its loop exits, its cleanup removes
\* and closes only the channel the endpoint created: every other channel that
\* was registered and active stays registered and active.
C4_CleanupRemovesOwnChannelOnly ==
    [][\A r \in DOMAIN generators :
          (Cancel(r) \/ ExitLoop(r))
             => \A other \in RegisteredAnywhere \ {r} :
                   clients[other].is_active
                      => /\ other \in RegisteredAnywhere'
                         /\ clients'[other].is_active]_vars

\* C5 as stated: cancelling a subscription lowers the count get_client_stats
\* reports for its topic class by exactly one, whatever happened before.
C5_CancelAlwaysDecrementsCount ==
    [][\A r \in DOMAIN generators :
          Cancel(r)
             => StatsCount(_clients', generators[r].client_type)
                   = StatsCount(_clients, generators[r].client_type) - 1]_vars

\* C5 amended: cancelling a subscription lowers the count of its topic class
\* by exactly one when a channel is registered under the endpoint's key at
\* that moment, and leaves the count as it was when none is (a sweep, a prune
\* or another endpoint's cleanup removed it first); no other count changes.
C5_CancelDecrementsCountIfRegistered ==
    [][\A r \in DOMAIN generators :
          Cancel(r)
             => LET ct == generators[r].client_type
                IN  /\ StatsCount(_clients', ct) =
                          IF generators[r].key \in DOMAIN _clients[ct]
                          THEN StatsCount(_clients, ct) - 1
                          ELSE StatsCount(_clients, ct)
                    /\ \A other \in ClientTypes \ {ct} :
                          StatsCount(_clients', other) = StatsCount(_clients, other)]_vars

\* an endpoint was cancelled after a sweep had already evicted its channel
C5_Witness ==
    \E r \in DOMAIN generators :
        /\ generators[r].pc = "cancelled"
        /\ now - clients[r].created_at > max_lifetime
        /\ generators[r].key \notin DOMAIN _clients[generators[r].client_type]

\* a second subscription superseded the channel registered at the key
Superseded(client_type, target_id) ==
    /\ target_id \in DOMAIN _clients[client_type]
    /\ \E first \in ChannelsOf(client_type, target_id) :
          first < _clients[client_type][target_id]

\* C6: a second subscription to a guest- or session-class key K leaves exactly
\* one channel registered at K, the one it created; an event published to K
\* afterwards is enqueued to that second channel and not to the first.
C6_SecondSubscriptionReceivesEvents ==
    [][/\ \A ct \in KeyedTypes : \A k \in DOMAIN _clients[ct] :
            Subscribed(ct, k)
               => /\ DOMAIN _clients'[ct] = DOMAIN _clients[ct]
                  /\ _clients'[ct][k] = Len(clients) + 1
       /\ \A ct \in KeyedTypes, ev \in Events : \A k \in Targets(ct) :
            (Superseded(ct, k) /\ Broadcast(ct, ev, k))
               => /\ clients'[_clients[ct][k]].queue =
                        Append(clients[_clients[ct][k]].queue, EventFrame(ev[1], ev[2]))
                  /\ \A first \in ChannelsOf(ct, k) \ {_clients[ct][k]} :
                        clients'[first].queue = clients[first].queue
       /\ \A g \in Guests :
            (Superseded("guest", str(g.id)) /\ NotifyGuestUpdated(g))
               => /\ Len(clients'[_clients["guest"][str(g.id)]].queue) =
                        Len(clients[_clients["guest"][str(g.id)]].queue) + 1
                  /\ \A first \in ChannelsOf("guest", str(g.id))
                                     \ {_clients["guest"][str(g.id)]} :
                        clients'[first].queue = clients[first].queue]_vars

\* C7 as stated: for each guest- or session-class key at most one channel
\* with that target key has is_active true.
C7_AtMostOneActiveChannelPerKey ==
    \A ct \in KeyedTypes : \A k \in Targets(ct) :
        Cardinality({r \in ChannelsOf(ct, k) : clients[r].is_active}) <= 1

\* C7 amended: for each guest- or session-class key at most one channel with
\* that target key is registered, and it is the one the latest subscription to
\* the key created: a second subscription replaces the first in the registry
\* (the replaced channel is left out of the registry, still active).
C7_AtMostOneRegisteredChannelPerKey ==
    \A ct \in KeyedTypes : \A k \in Targets(ct) :
        /\ Cardinality(ChannelsOf(ct, k) \cap Registered(ct)) <= 1
        /\ k \in DOMAIN _clients[ct]
              => /\ _clients[ct][k] \in ChannelsOf(ct, k)
                 /\ \A r \in ChannelsOf(ct, k) : r <= _clients[ct][k]

\* two channels with one target key, both active, the later one registered
C7_Witness ==
    \E ct \in KeyedTypes : \E k \in DOMAIN _clients[ct] :
        \E first \in ChannelsOf(ct, k) :
            /\ first < _clients[ct][k]
            /\ clients[first].is_active
            /\ clients[_clients[ct][k]].is_active

\* C8: each global subscription is registered under its own client id next to
\* the ones already there, and one publish to the global class enqueues
\* exactly one frame to each of n >= 2 registered global channels.
C8_GlobalPublishReachesEverySubscriber ==
    [][/\ subscribe_to_room_updates
            => /\ Cardinality(DOMAIN _clients'["global"]) =
                     Cardinality(DOMAIN _clients["global"]) + 1
               /\ \A k \in DOMAIN _clients'["global"] :
                     clients'[_clients'["global"][k]].client_id = k
               /\ \A k \in DOMAIN _clients["global"] :
                     _clients'["global"][k] = _clients["global"][k]
       /\ \A rooms \in RoomLists :
            (Cardinality(DOMAIN _clients["global"]) >= 2 /\ NotifyRoomsUpdated(rooms))
               => \A r \in Registered("global") :
                     Len(clients'[r].queue) = Len(clients[r].queue) + 1]_vars

----------------------------------------------------------------------------
(* Order of delivery *)

\* C9: a channel returns frames in the order they were enqueued.  Every step
\* leaves a queue as it is, or appends one frame behind those waiting
\* (send_event), or takes the oldest frame, which is the one get_event
\* returns, or empties the queue of a channel that is closed; no step, of any
\* publisher, endpoint or sweep, reorders or inserts ahead.
C9_FramesLeaveInPublishOrder ==
    [][\A r \in DOMAIN clients :
          LET q == clients[r].queue
              q2 == clients'[r].queue
          IN  \/ q2 = q
              \/ /\ Len(q2) = Len(q) + 1
                 /\ SubSeq(q2, 1, Len(q)) = q
              \/ /\ q # <<>>
                 /\ GetEvent(r)
                 /\ get_event(clients[r], now).frame = Head(q)
                 /\ q2 = Tail(q)
              \/ /\ ~clients'[r].is_active
                 /\ q2 = <<>>]_vars

\* two different frames wait in one queue while its endpoint is in get_event
C9_Witness ==
    \E r \in DOMAIN clients :
        /\ Len(clients[r].queue) = 2
        /\ clients[r].queue[1].event # clients[r].queue[2].event
        /\ generators[r].pc = "waiting"

----------------------------------------------------------------------------
(* The cleanup task *)

\* C10: a sweep pass removes every registered channel whose age
\* (now - created_at) exceeds max_lifetime, however large the age.  Stated of
\* the pass the cleanup task would make in each reachable state.
C10_SweepRemovesEveryOverAgeChannel ==
    LET s == _cleanup_inactive_clients(_clients, clients, now)
    IN  \A ct \in ClientTypes : \A k \in DOMAIN _clients[ct] :
            now - clients[_clients[ct][k]].created_at > max_lifetime
               => k \notin DOMAIN s.reg[ct]

\* C11: a sweep pass never removes a registered channel that is active and
\* whose age (now - created_at) is at most max_lifetime: its registry entry,
\* is_active flag and queue are as before the pass.  Stated of the pass the
\* cleanup task would make in each reachable state.
C11_SweepKeepsYoungActiveChannels ==
    LET s == _cleanup_inactive_clients(_clients, clients, now)
    IN  \A ct \in ClientTypes : \A k \in DOMAIN _clients[ct] :
            LET r == _clients[ct][k]
            IN  (clients[r].is_active /\ now - clients[r].created_at <= max_lifetime)
                   => /\ k \in DOMAIN s.reg[ct]
                      /\ s.reg[ct][k] = r
                      /\ s.cl[r] = clients[r]

----------------------------------------------------------------------------
(* Heartbeats *)

\* C12: a get_event that times out on an empty queue returns a heartbeat
\* frame (type "heartbeat", the current timestamp) and changes nothing else:
\* every channel and the registry are as before, so an idle subscriber stays
\* active and registered.
C12_TimeoutReturnsHeartbeatOnly ==
    [][\A r \in DOMAIN generators :
          GetEventTimeout(r)
             => /\ json_loads(get_event(clients[r], now).frame.data) =
                      PyDict(<< <<"type", PyStr("heartbeat")>>,
                                <<"timestamp", PyStr(isoformat(now))>> >>)
                /\ clients' = clients
                /\ _clients' = _clients]_vars

\* an endpoint sits in get_event on the empty queue of its own active,
\* registered channel while time has passed since it subscribed
C12_Witness ==
    \E r \in DOMAIN generators :
        /\ generators[r].pc = "waiting"
        /\ clients[r].queue = <<>>
        /\ clients[r].is_active
        /\ r \in Registered(generators[r].client_type)
        /\ now > clients[r].created_at

----------------------------------------------------------------------------
(* Delivery failures *)

\* the payloads a pass is tried with: one of plain JSON types and one that
\* json.dumps rejects
PassPayloads == {PlainPayload, model_dump(GuestResponse(1))}

\* C13: when a Broadcaster pass returns, every channel it targeted whose
\* send_event failed (nothing was enqueued to it) is out of the registry, and
\* every channel whose send succeeded (it holds the new frame) is registered
\* as before, as are the channels the pass did not target.  Stated of the
\* outcome of the pass in every reachable state.
C13_FailedChannelsArePruned ==
    \A ct \in ClientTypes, data \in PassPayloads : \A target_id \in Targets(ct) :
        LET s == _broadcast_to_clients(_clients, clients, ct, "guest_updated", data, target_id)
            targeted == BroadcastKeys(_clients, ct, target_id)
        IN  /\ \A k \in targeted :
                  LET r == _clients[ct][k]
                  IN  IF Len(s.cl[r].queue) = Len(clients[r].queue) + 1
                      THEN k \in DOMAIN s.reg[ct] /\ s.reg[ct][k] = r
                      ELSE k \notin DOMAIN s.reg[ct]
            /\ \A k \in DOMAIN _clients[ct] \ targeted :
                  k \in DOMAIN s.reg[ct] /\ s.reg[ct][k] = _clients[ct][k]
            /\ \A other \in ClientTypes \ {ct} : s.reg[other] = _clients[other]

\* the only channel there is went out of the registry inactive, while its
\* endpoint is still running and before a sweep could find it over age: a
\* pass pruned it after a failed send
C13_Witness ==
    /\ Len(clients) = 1
    /\ ~clients[1].is_active
    /\ RegisteredAnywhere = {}
    /\ generators[1].pc \in {"ready", "waiting"}
    /\ now = clients[1].created_at

\* every channel of the keys is marked inactive with its queue as it was and
\* is out of the class map, and no other channel was touched
FailedAndPruned(s, client_type, keys) ==
    /\ \A k \in keys :
          LET r == _clients[client_type][k]
          IN  /\ ~s.cl[r].is_active
              /\ s.cl[r].queue = clients[r].queue
              /\ k \notin DOMAIN s.reg[client_type]
    /\ \A r \in DOMAIN clients \ {_clients[client_type][k] : k \in keys} :
          s.cl[r] = clients[r]

\* C14: a send_event that fails on its payload raises nothing to the
\* publisher: the publish call completes, having tried every matching
\* channel, each of which is marked inactive and pruned.  Stated of the
\* outcome of _broadcast_to_clients and of the notify_* calls in every
\* reachable state.
C14_FailureStaysInsideThePass ==
    /\ \A ct \in ClientTypes : \A target_id \in Targets(ct) :
          FailedAndPruned(
              _broadcast_to_clients(_clients, clients, ct, "guest_updated",
                                    model_dump(GuestResponse(1)), target_id),
              ct, BroadcastKeys(_clients, ct, target_id))
    /\ \A g \in Guests :
          FailedAndPruned(notify_guest_updated(_clients, clients, g),
                          "guest", BroadcastKeys(_clients, "guest", str(g.id)))
    /\ FailedAndPruned(notify_rooms_updated(_clients, clients, <<RoomResponse(1)>>),
                       "global", DOMAIN _clients["global"])
    /\ \A g \in GuestIds :
          FailedAndPruned(
              notify_reservation(_clients, clients, "reservation_created",
                                 ReservationResponse(1, g), g),
              "guest", BroadcastKeys(_clients, "guest", str(g)))

\* two channels of one class, created together, are both inactive and out of
\* the registry while their endpoints still run: one failing publish was
\* tried on both
C14_Witness ==
    /\ Len(clients) = 2
    /\ clients[1].event_type = clients[2].event_type
    /\ ~clients[1].is_active /\ ~clients[2].is_active
    /\ RegisteredAnywhere = {}
    /\ \A r \in {1, 2} : generators[r].pc \in {"ready", "waiting"}
    /\ clients[1].created_at = now /\ clients[2].created_at = now
    /\ clients[1].target_id # clients[2].target_id \/ clients[1].target_id = None

\* C15: send_event on a channel whose is_active is false returns false and
\* enqueues nothing, and no step of the service makes an inactive channel
\* active again or its queue longer.
C15_InactiveChannelStaysShut ==
    [][\A r \in DOMAIN clients :
          ~clients[r].is_active
             => /\ \A ev \in Events :
                      send_event(clients[r], ev[1], ev[2]) =
                         [client |-> clients[r], ok |-> FALSE]
                /\ ~clients'[r].is_active
                /\ Len(clients'[r].queue) <= Len(clients[r].queue)]_vars

\* a channel went inactive with a frame still in its queue
C15_Witness ==
    \E r \in DOMAIN clients :
        /\ ~clients[r].is_active
        /\ clients[r].queue # <<>>

----------------------------------------------------------------------------
(* Closing and unregistering *)

\* C16: close() leaves the channel inactive with an empty queue whatever was
\* buffered before, and a second close() changes nothing.
C16_CloseEmptiesAndIsIdempotent ==
    \A r \in DOMAIN clients :
        /\ ~close(clients[r]).is_active
        /\ close(clients[r]).queue = <<>>
        /\ close(clients[r]) = [clients[r] EXCEPT !.is_active = FALSE, !.queue = <<>>]
        /\ close(close(clients[r])) = close(clients[r])

\* one stream was closed by its endpoint while another channel still holds a
\* full buffer
C16_Witness ==
    \E r1, r2 \in DOMAIN clients :
        /\ generators[r1].pc = "cancelled"
        /\ clients[r1] = close(clients[r1])
        /\ clients[r2].is_active
        /\ Len(clients[r2].queue) = MaxQueue

\* the keys _remove_client may be called with for a class
Keys(client_type) ==
    IF client_type = "global"
    THEN {clients[r].client_id : r \in DOMAIN clients}
    ELSE Targets(client_type)

\* C17: _remove_client on a (class, key) with no registered channel leaves
\* the registry and every channel unchanged, and calling it twice in a row
\* for the same key has the same effect as calling it once.
C17_RemoveOfAbsentKeyIsNoOp ==
    \A ct \in ClientTypes : \A k \in Keys(ct) :
        LET once == _remove_client(_clients, clients, ct, k)
            twice == _remove_client(once.reg, once.cl, ct, k)
        IN  /\ k \notin DOMAIN _clients[ct]
                 => /\ once.reg = _clients
                    /\ once.cl = clients
            /\ twice = once

\* a generator left its loop and ran finally for a key that was no longer
\* registered: its channel, pruned earlier, still holds its frame
C17_Witness ==
    \E r \in DOMAIN generators :
        /\ generators[r].pc = "closed"
        /\ generators[r].key \notin DOMAIN _clients[generators[r].client_type]
        /\ clients[r].queue # <<>>

\* C18: every path that removes a channel from the registry (the endpoint's
\* cleanup, the prune of a failed channel at the end of a broadcast pass, the
\* sweeper's eviction) also closes it: right after the removal the channel
\* is inactive and its queue is empty.
C18_RemovalAlsoCloses ==
    [][Len(clients') = Len(clients)
          => \A r \in RegisteredAnywhere :
                r \notin UNION {{_clients'[ct][k] : k \in DOMAIN _clients'[ct]} : ct \in ClientTypes}
                   => /\ ~clients'[r].is_active
                      /\ clients'[r].queue = <<>>]_vars

----------------------------------------------------------------------------
(* The cleanup task step by step, under the scheduling of the event loop *)

\* await asyncio.sleep(60) returns: the try block goes on to its pass
CleanupWakes ==
    /\ _cleanup_task = "sleep"
    /\ _cleanup_task' = "pass"
    /\ UNCHANGED <<_clients, clients, _client_counter, now, generators>>

\* the pass runs to the end of the try block and the loop sleeps again
CleanupPasses ==
    LET s == _cleanup_inactive_clients(_clients, clients, now)
    IN  /\ _cleanup_task = "pass"
        /\ _clients' = s.reg
        /\ clients' = s.cl
        /\ _cleanup_task' = "sleep"
        /\ UNCHANGED <<_client_counter, now, generators>>

\* the pass raises an Exception when it has evicted the channels in done,
\* some of those it was about to evict
CleanupRaises ==
    LET evicted == {r \in RegisteredAnywhere : Expired(clients[r], now)}
    IN  /\ _cleanup_task = "pass"
        /\ \E done \in SUBSET evicted :
              /\ _clients' = [ct \in ClientTypes |->
                                [k \in {j \in DOMAIN _clients[ct] : _clients[ct][j] \notin done}
                                    |-> _clients[ct][k]]]
              /\ clients' = [r \in DOMAIN clients |->
                               IF r \in done THEN close(clients[r]) ELSE clients[r]]
        /\ _cleanup_task' = "except"
        /\ UNCHANGED <<_client_counter, now, generators>>

\* an except clause around the loop instead of inside it: the task ends
LogError_EndsTask ==
    /\ _cleanup_task = "except"
    /\ _cleanup_task' = "done"
    /\ UNCHANGED <<_clients, clients, _client_counter, now, generators>>

\* except Exception as e: logger.error(...), and the while loop goes round
LogError ==
    /\ _cleanup_task = "except"
    /\ _cleanup_task' = "sleep"
    /\ UNCHANGED <<_clients, clients, _client_counter, now, generators>>

\* a step of the event_generator of stream r that needs no cancellation
GeneratorStep(r) ==
    /\ r \in DOMAIN generators
    /\ \/ EnterGetEvent(r)
       \/ ExitLoop(r)
       \/ GetEvent(r)
       \/ GetEventTimeout(r)

\* the guest streams, their publishers and the cleanup task
NextScheduled ==
    \/ \E g \in GuestIds : subscribe_to_guest_updates(g)
    \/ \E ev \in Events : \E k \in Targets("guest") : Broadcast("guest", ev, k)
    \/ \E g \in Guests : NotifyGuestUpdated(g)
    \/ CleanupWakes
    \/ CleanupPasses
    \/ CleanupRaises
    \/ LogError
    \/ \E r \in DOMAIN generators : EnterGetEvent(r)
    \/ \E r \in DOMAIN generators : ExitLoop(r)
    \/ \E r \in DOMAIN generators : GetEvent(r)
    \/ \E r \in DOMAIN generators : GetEventTimeout(r)
    \/ \E r \in DOMAIN generators : Cancel(r)
    \/ TimePasses

\* The event loop runs every callback that is ready: the sleep's timer fires,
\* the pass (which never suspends) reaches its end or its except clause, and
\* a generator whose stream is being read goes on, its get_event returning
\* within its 30 s timeout.  No stream is ever bound to be cancelled.
SpecScheduled ==
    /\ Init
    /\ [][NextScheduled]_vars
    /\ WF_vars(CleanupWakes)
    /\ WF_vars(CleanupPasses \/ CleanupRaises)
    /\ WF_vars(LogError)
    /\ \A r \in 1..MaxClients : WF_vars(GeneratorStep(r))

\* C19: an exception raised during one sweep iteration is caught inside the
\* loop and does not end the cleanup task: after every faulty iteration the
\* task comes to a later pass, and it comes to a pass again and again for as
\* long as the process lives.
C19_SweeperOutlivesFaults ==
    /\ (_cleanup_task = "except") ~> (_cleanup_task = "pass")
    /\ []<>(_cleanup_task = "pass")

\* a pass raised with an over-age channel still registered
C19_Witness ==
    /\ _cleanup_task = "except"
    /\ \E r \in RegisteredAnywhere : Expired(clients[r], now)

\* C20: once a channel is inactive (closed by _remove_client or by the
\* cleanup pass, or marked failed by send_event) the generator of its stream
\* comes to its end, running its finally block, with no cancellation needed;
\* and from the moment the channel is inactive the generator yields no frame
\* that carries a published event.
C20_InactiveChannelEndsItsStream ==
    /\ \A r \in 1..MaxClients :
          (r \in DOMAIN clients /\ ~clients[r].is_active)
             ~> (r \in DOMAIN generators /\ generators[r].pc \in {"closed", "cancelled"})
    /\ [][\A r \in DOMAIN generators :
             ~clients[r].is_active => ~GetEvent(r)]_vars

----------------------------------------------------------------------------
(* Lifetime of a channel *)

\* C21: every channel ever created is eventually closed (is_active false),
\* provided its client disconnects or the cleanup task keeps running past the
\* channel's max lifetime; also a channel that a later subscription to the
\* same key superseded in the registry.  Stated for the first proviso: once
\* the stream of a channel has been cancelled, the channel comes to be closed.
C21_EveryChannelIsDestroyed ==
    \A r \in 1..MaxClients :
        (r \in DOMAIN generators /\ generators[r].pc = "cancelled")
           ~> (r \in DOMAIN clients /\ ~clients[r].is_active)

----------------------------------------------------------------------------
(* Statistics *)

\* C22: get_client_stats changes no state and returns, for each topic class,
\* the number of channels now in that class's map, with total_clients the
\* sum of the three class counts.  (The operator reads the registry and
\* returns the counts only: it has no state to hand back.)
C22_StatsCountTheRegistry ==
    LET stats == get_client_stats(_clients)
    IN  /\ DOMAIN stats = {"guest_clients", "session_clients", "global_clients", "total_clients"}
        /\ stats.guest_clients = Cardinality(Registered("guest"))
        /\ stats.session_clients = Cardinality(Registered("session"))
        /\ stats.global_clients = Cardinality(Registered("global"))
        /\ stats.total_clients =
              stats.guest_clients + stats.session_clients + stats.global_clients
        /\ stats.total_clients = Cardinality(RegisteredAnywhere)

\* a keyed and a global channel are registered
C22_Witness ==
    /\ get_client_stats(_clients).global_clients = 1
    /\ get_client_stats(_clients).guest_clients = 1
    /\ get_client_stats(_clients).total_clients = 2

----------------------------------------------------------------------------
(* Consumption *)

\* C23: every frame enqueued to a channel is yielded by that channel's
\* endpoint at most once, and exactly once if the channel is not closed and
\* the endpoint is not cancelled before the frame is consumed; no enqueued
\* frame is handed to another endpoint.  A get_event of stream r takes the
\* oldest frame off channel r and touches no other channel, and a stream
\* leaves its loop by itself only with no frame left in its channel.
C23_FramesAreYieldedExactlyOnce ==
    [][\A r \in DOMAIN generators :
          /\ GetEvent(r)
                => /\ get_event(clients[r], now).frame = Head(clients[r].queue)
                   /\ clients'[r].queue = Tail(clients[r].queue)
                   /\ \A o \in DOMAIN clients \ {r} : clients'[o] = clients[o]
          /\ ExitLoop(r) => clients[r].queue = <<>>]_vars

----------------------------------------------------------------------------
(* The CRUD handlers of app/controllers, from the commit of their service   *)
(* call to their response                                                   *)

TypeError == "TypeError"

\* a call binds its positional arguments to the parameters of the def: with
\* fewer arguments than required parameters Python raises TypeError before
\* the body runs
Call(required, args) == IF Len(args) < Len(required) THEN TypeError ELSE None

\* the response: the route's status code, or the 500 of main.py's
\* global_exception_handler when the handler raised
Response(status_code, raised) == IF raised # None THEN 500 ELSE status_code

\* guest_controller.update_guest: await sse_service.notify_guest_updated(guest)
update_guest(reg, cl, guest) ==
    LET s == notify_guest_updated(reg, cl, guest)
    IN  [reg |-> s.reg, cl |-> s.cl, status_code |-> Response(200, None)]

\* room_controller.update_room_status returns the service's result and calls
\* nothing of the hub
update_room_status(reg, cl, room) ==
    [reg |-> reg, cl |-> cl, status_code |-> Response(200, None)]

\* reservation_controller.create_reservation:
\* await sse_service.notify_reservation_created(detailed_reservation), for
\* def notify_reservation_created(self, reservation, guest_id)
create_reservation(reg, cl, reservation) ==
    LET args == <<reservation>>
        raised == Call(<<"reservation", "guest_id">>, args)
        s == IF raised = None
             THEN notify_reservation(reg, cl, "reservation_created", args[1], args[2])
             ELSE [reg |-> reg, cl |-> cl]
    IN  [reg |-> s.reg, cl |-> s.cl, status_code |-> Response(201, raised)]

\* the handler answered with status_code and left one more frame, of this
\* event type, in the queue of channel r
Notified(s, status_code, r, event_type) ==
    /\ s.status_code = status_code
    /\ Len(s.cl[r].queue) = Len(clients[r].queue) + 1
    /\ s.cl[r].queue[Len(s.cl[r].queue)].event = event_type

\* C24: every committed guest, room or reservation mutation made through a
\* CRUD handler is followed by a publish that enqueues the event to the
\* matching subscribers (a room change to every global subscriber, a guest
\* or reservation change to the subscriber of that guest), and the handler's
\* request still completes successfully.
C24_MutationsArePublished ==
    /\ \A g \in GuestIds :
          str(g) \in DOMAIN _clients["guest"]
             => /\ Notified(create_reservation(_clients, clients, ReservationResponse(1, g)),
                            201, _clients["guest"][str(g)], "reservation_created")
                /\ Notified(update_guest(_clients, clients, GuestResponse(g)),
                            200, _clients["guest"][str(g)], "guest_updated")
    /\ \A r \in Registered("global") :
          Notified(update_room_status(_clients, clients, RoomResponse(1)),
                   200, r, "rooms_updated")

----------------------------------------------------------------------------
(* Wire structure *)

\* C25: every frame a subscriber receives, event or heartbeat, has the same
\* wire structure carrying an event type and a payload; a heartbeat frame
\* carries the event type "heartbeat" and a timestamp payload in that same
\* structure.
C25_FramesShareOneStructure ==
    [][\A r \in DOMAIN generators :
          LET frame == get_event(clients[r], now).frame
          IN  /\ (GetEvent(r) \/ GetEventTimeout(r))
                    => DOMAIN frame = {"event", "data"}
              /\ GetEventTimeout(r)
                    => /\ frame.event = "heartbeat"
                       /\ json_loads(frame.data) =
                             PyDict(<< <<"timestamp", PyStr(isoformat(now))>> >>)]_vars

----------------------------------------------------------------------------
(* Client identifiers *)

\* C26: every channel created by the service gets a client id distinct from
\* every id generated before it: the client counter goes up by exactly one
\* per registration and never repeats, so two global subscribers never share
\* a registry key.
C26_ClientIdsNeverRepeat ==
    /\ _client_counter = Len(clients)
    /\ \A r \in DOMAIN clients :
          clients[r].client_id = _generate_client_id(r, clients[r].created_at)
    /\ \A r1, r2 \in DOMAIN clients :
          r1 # r2 => clients[r1].client_id # clients[r2].client_id
    /\ \A k \in DOMAIN _clients["global"] :
          clients[_clients["global"][k]].client_id = k
    /\ Cardinality(DOMAIN _clients["global"]) = Cardinality(Registered("global"))

\* two global subscribers registered within the same second
C26_Witness ==
    /\ Cardinality(DOMAIN _clients["global"]) = 2
    /\ \A r \in DOMAIN clients : clients[r].created_at = now

----------------------------------------------------------------------------
(* notify_guest_created and the move of the session's channel *)

\* the publisher left at most one more frame in every queue
AtMostOneFrameEach(s) ==
    \A r \in DOMAIN clients : Len(s.cl[r].queue) <= Len(clients[r].queue) + 1

\* C28: a single notify_* call enqueues at most one frame to any given
\* channel; this includes notify_guest_created(guest, session_id) when a
\* subscriber is registered for session_id, which delivers guest_created to
\* that subscriber once.
C28_OneFramePerCall ==
    /\ \A g \in Guests :
          /\ AtMostOneFrameEach(notify_guest_updated(_clients, clients, g))
          /\ AtMostOneFrameEach(notify_guest_created(_clients, clients, g, None))
          /\ AtMostOneFrameEach(notify_reservation(_clients, clients, "reservation_created",
                                                   ReservationResponse(1, g.id), g.id))
    /\ \A rooms \in RoomLists :
          AtMostOneFrameEach(notify_rooms_updated(_clients, clients, rooms))
    /\ \A g \in Guests, sid \in StreamingSessionIds :
          sid \in DOMAIN _clients["session"]
             => LET s == notify_guest_created(_clients, clients, g, sid)
                    r == _clients["session"][sid]
                IN  /\ AtMostOneFrameEach(s)
                    /\ Len(s.cl[r].queue) = Len(clients[r].queue) + 1
                    /\ s.cl[r].queue[Len(s.cl[r].queue)].event = "guest_created"

\* the channels a class map of registry reg holds
RegisteredIn(reg, client_type) ==
    {reg[client_type][k] : k \in DOMAIN reg[client_type]}

\* C29: notify_guest_created with a session_id moves the session's channel
\* from the session map to the guest map under str(guest.id) as one step
\* that never suspends: no other task finds the channel in both maps or in
\* neither, and after the call it is in the guest map only, with target_id
\* equal to str(guest.id).
C29_SessionChannelMovesToGuestMap ==
    /\ \A ct1, ct2 \in ClientTypes :
          ct1 # ct2 => Registered(ct1) \cap Registered(ct2) = {}
    /\ \A g \in Guests, sid \in StreamingSessionIds :
          sid \in DOMAIN _clients["session"]
             => LET s == notify_guest_created(_clients, clients, g, sid)
                    r == _clients["session"][sid]
                IN  /\ r \notin RegisteredIn(s.reg, "session")
                    /\ r \notin RegisteredIn(s.reg, "global")
                    /\ str(g.id) \in DOMAIN s.reg["guest"]
                    /\ s.reg["guest"][str(g.id)] = r
                    /\ s.cl[r].target_id = str(g.id)

----------------------------------------------------------------------------
(* The registry holds active channels only *)

\* C30: between operations every channel held in the registry is active: no
\* channel is left registered after close() or after a send_event that
\* returned false.
C30_RegisteredChannelsAreActive ==
    \A r \in RegisteredAnywhere : clients[r].is_active

\* one channel was dropped after a failed send, its frame still queued, and
\* another is registered
C30_Witness ==
    \E r1, r2 \in DOMAIN clients :
        /\ ~clients[r1].is_active
        /\ clients[r1].queue # <<>>
        /\ r1 \notin RegisteredAnywhere
        /\ r2 \in RegisteredAnywhere

====
